---- MODULE Spec2Model ----
(***************************************************************************)
(* Model of the palette lookup generator of                               *)
(* ss1/content/movie/internal/compression/PaletteLookupGenerator.go:      *)
(* tilePaletteKey (a 256 bit set with a cached size), PaletteLookup       *)
(* (buffer, starts, Lookup), PaletteLookupGenerator (Add, Generate) and   *)
(* the concurrent nested packing (nestedEntryCache.query,                 *)
(* nestedEntry.populate / populateRemaining / extractBuffer).             *)
(***************************************************************************)
EXTENDS Integers, Sequences, FiniteSets, TLC

(***************************************************************************)
(* Bounds of the model.                                                    *)
(***************************************************************************)

\* Number of Add calls a behaviour makes at most.
MaxAdds == 3

\* Number of Generate calls between two Add calls at most.
MaxGenerates == 2

\* Palette indices the tiles of the model are painted with, ascending.
ColorSeq == <<1, 2, 3, 100, 101, 102>>

Colors == {ColorSeq[i] : i \in 1..Len(ColorSeq)}

(***************************************************************************)
(* Program constants.                                                      *)
(***************************************************************************)

\* Pixels of one tile delta (the length of the tileDelta array).  The constant
\* is declared outside of PaletteLookupGenerator.go; its value is 16.
PixelPerTile == 16

\* usedColors is [4]uint64: a colour lives in word index/64, bit index%64.
WordBits == 64

\* Number of words of usedColors.
KeyWords == 4

\* The loops of buffer, joinedBuffer and without run over 0..255.
ByteCount == 256

\* Width of the mask Lookup returns (uint64).
MaskBits == 64

Min(a, b) == IF a < b THEN a ELSE b

\* "LET v == x IN f(v)" with x evaluated once, wherever the expression is
\* evaluated (TLC evaluates a LET definition anew at each use inside ENABLED).
Bind(x, f(_)) == CHOOSE r \in {f(v) : v \in {x}} : TRUE

(***************************************************************************)
(* tilePaletteKey                                                          *)
(***************************************************************************)

\* The zero value of tilePaletteKey: usedColors all zero, size 0.  A word is
\* modelled by the set of the positions of its set bits.
EmptyKey == [usedColors |-> [w \in 0..(KeyWords - 1) |-> {}], size |-> 0]

hasColor(key, index) ==
    (index % WordBits) \in key.usedColors[index \div WordBits]

\* useColor without the test "!key.hasColor(index)".
useColorAlways(key, index) ==
    [usedColors |-> [key.usedColors EXCEPT ![index \div WordBits] =
                                           @ \cup {index % WordBits}],
     size |-> key.size + 1]

useColor(key, index) ==
    IF ~hasColor(key, index)
    THEN [usedColors |-> [key.usedColors EXCEPT ![index \div WordBits] =
                                                 @ \cup {index % WordBits}],
          size |-> key.size + 1]
    ELSE key

\* contains with the test of the words 1 to 3 left out.
containsLowWord(key, other) ==
    (other.usedColors[0] \ key.usedColors[0]) = {}

\* (^key.usedColors[w] & other.usedColors[w]) == 0 for the four words.
contains(key, other) ==
    /\ (other.usedColors[0] \ key.usedColors[0]) = {}
    /\ (other.usedColors[1] \ key.usedColors[1]) = {}
    /\ (other.usedColors[2] \ key.usedColors[2]) = {}
    /\ (other.usedColors[3] \ key.usedColors[3]) = {}

\* Fold of useColor over a sequence of bytes, first byte first.
RECURSIVE useColors(_, _)
useColors(key, bytes) ==
    Bind(<<key, bytes>>, LAMBDA v :
        IF v[2] = <<>> THEN v[1]
        ELSE useColors(useColor(v[1], Head(v[2])), Tail(v[2])))

\* The loop "for i := 0; i < 256; i++" appending the bytes of a set: the
\* elements of S in ascending order.
RECURSIVE ascending(_)
ascending(S) ==
    Bind(S, LAMBDA T :
        IF T = {} THEN <<>>
        ELSE Bind(CHOOSE x \in T : \A y \in T : x <= y, LAMBDA lo :
                 <<lo>> \o ascending(T \ {lo})))

\* The bytes i of 0..255 with key.hasColor(i): bit b of word w is byte
\* w*64 + b.
BytesOf(key) ==
    {i \in UNION {{w * WordBits + b : b \in key.usedColors[w]} :
                      w \in 0..(KeyWords - 1)} :
        i < ByteCount /\ hasColor(key, i)}

buffer(key) ==
    ascending(BytesOf(key))

\* joinedBuffer without the test "!addedColors.hasColor": every colour of the
\* key is appended.
joinedBufferAll(key, source) ==
    source \o ascending(BytesOf(key))

joinedBuffer(key, source) ==
    Bind(<<key, source>>, LAMBDA v :
        Bind(useColors(EmptyKey, v[2]), LAMBDA addedColors :
            v[2] \o ascending({color \in BytesOf(v[1]) :
                                  ~hasColor(addedColors, color)})))

without(key, other) ==
    Bind(<<key, other>>, LAMBDA v :
        useColors(EmptyKey, ascending({i \in BytesOf(v[1]) : ~hasColor(v[2], i)})))

(***************************************************************************)
(* Tiles                                                                   *)
(***************************************************************************)

\* tileDelta is an array of PixelPerTile bytes, indexed from 0.
Pixels == 0..(PixelPerTile - 1)

\* "for _, pal := range tile { key.useColor(pal) }"
KeyOfTile(tile) ==
    useColors(EmptyKey, [i \in 1..PixelPerTile |-> tile[i - 1]])

\* The tiles the model paints: for every run of n consecutive colours of
\* ColorSeq (1 <= n <= PixelPerTile) one tile that shows the run ascending and
\* then repeats its last colour, and the same tile read backwards.
AscTile(first, n) ==
    [p \in Pixels |-> ColorSeq[first + Min(p, n - 1)]]

DescTile(first, n) ==
    [p \in Pixels |-> ColorSeq[first + Min(PixelPerTile - 1 - p, n - 1)]]

Runs ==
    {r \in (1..Len(ColorSeq)) \X (1..PixelPerTile) : r[1] + r[2] - 1 <= Len(ColorSeq)}

Tiles == {AscTile(r[1], r[2]) : r \in Runs} \cup {DescTile(r[1], r[2]) : r \in Runs}

(***************************************************************************)
(* PaletteLookup                                                           *)
(***************************************************************************)

\* The zero value of PaletteLookup and the value Generate starts from.
EmptyLookup == [buffer |-> <<>>, starts |-> <<>>]

\* bits.Len(n) for n >= 0: the number of bits needed to represent n.
RECURSIVE bitsLen(_)
bitsLen(n) == IF n = 0 THEN 0 ELSE 1 + bitsLen(n \div 2)

\* The set bits of a byte.
BitsOf(b) == {i \in 0..7 : (b \div (2 ^ i)) % 2 = 1}

\* "mask <<= bitSize" on a mask declared uint32.
ShiftLeft32(mask, bitSize) ==
    {i + bitSize : i \in mask} \cap (0..31)

\* "mask <<= bitSize" on a uint64, the mask being the set of its set bits:
\* bits shifted past bit 63 are lost.
ShiftLeft(mask, bitSize) ==
    {i + bitSize : i \in mask} \cap (0..(MaskBits - 1))

\* "for mappedIndex, b := range pal { mapped[b] = byte(mappedIndex) }" on the
\* zeroed array mapped: the last position of b in pal, 0 when b is not in pal.
Mapped(pal, b) ==
    LET at == {i \in 1..Len(pal) : pal[i] = b}
    IN  IF at = {} THEN 0
        ELSE ((CHOOSE i \in at : \A j \in at : j <= i) - 1) % ByteCount

\* The loop "for tileIndex := PixelPerTile - 1; tileIndex >= 0; tileIndex--",
\* from tileIndex downwards.
RECURSIVE maskLoop(_, _, _, _, _)
\* The loop with "mask |= ..." before "mask <<= bitSize".
maskLoopShiftLast(mask, tile, pal, bitSize, tileIndex) ==
    IF tileIndex < 0 THEN mask
    ELSE maskLoop(ShiftLeft(mask \cup BitsOf(Mapped(pal, tile[tileIndex])), bitSize),
                  tile, pal, bitSize, tileIndex - 1)

maskLoop(mask, tile, pal, bitSize, tileIndex) ==
    IF tileIndex < 0 THEN mask
    ELSE maskLoop(ShiftLeft(mask, bitSize) \cup BitsOf(Mapped(pal, tile[tileIndex])),
                  tile, pal, bitSize, tileIndex - 1)

\* The index the map read "index, inLookup := lookup.starts[key]" yields:
\* the entry, or the zero value of int when there is none.
\* The map read with -1 for a key that has no entry.
StartIndexOrMinusOne(lookup, key) ==
    IF key \in DOMAIN lookup.starts THEN lookup.starts[key] ELSE -1

StartIndex(lookup, key) ==
    IF key \in DOMAIN lookup.starts THEN lookup.starts[key] ELSE 0

Lookup(lookup, tile) ==
    LET key == KeyOfTile(tile)
        inLookup == key \in DOMAIN lookup.starts
        index == StartIndex(lookup, key)
        pal == IF inLookup
               THEN SubSeq(lookup.buffer, index + 1, index + key.size)
               ELSE buffer(key)
        bitSize == bitsLen(key.size - 1)
    IN  [tile |-> tile, index |-> index, pal |-> pal,
         mask |-> maskLoop({}, tile, pal, bitSize, PixelPerTile - 1)]

(***************************************************************************)
(* nestedEntry                                                             *)
(***************************************************************************)

NewEntry(key) == [key |-> key, nested |-> <<>>]

RECURSIVE byteSize(_)
RECURSIVE nestedByteSize(_)
byteSize(entry) ==
    Bind(entry, LAMBDA e : e.key.size + nestedByteSize(e.nested))

\* "for _, nested := range entry.nested { nestedSize += nested.byteSize() }"
nestedByteSize(nested) ==
    Bind(nested, LAMBDA n :
        IF n = <<>> THEN 0
        ELSE byteSize(Head(n)) + nestedByteSize(Tail(n)))

\* extractBuffer returns the bytes; the calls of marker are returned with them,
\* in the order they are made.
RECURSIVE extractBuffer(_, _)
RECURSIVE extractNested(_, _, _)
extractBuffer(entry, startOffset) ==
    Bind(<<entry, startOffset>>, LAMBDA v :
        Bind(extractNested(v[1].nested, v[2], 0), LAMBDA parts :
            [bytes |-> joinedBuffer(v[1].key, parts.bytes),
             marks |-> <<[key |-> v[1].key, offset |-> v[2]]>> \o parts.marks]))

\* The loop without "relativeOffset += nested.key.size".
extractNestedInPlace(nested, startOffset, relativeOffset) ==
    Bind(<<nested, startOffset, relativeOffset>>, LAMBDA v :
        IF v[1] = <<>> THEN [bytes |-> <<>>, marks |-> <<>>]
        ELSE Bind(<<extractBuffer(Head(v[1]), v[2] + v[3]),
                    extractNested(Tail(v[1]), v[2], v[3])>>,
                  LAMBDA got :
                      [bytes |-> got[1].bytes \o got[2].bytes,
                       marks |-> got[1].marks \o got[2].marks]))

\* "for _, nested := range entry.nested", from relativeOffset on.
extractNested(nested, startOffset, relativeOffset) ==
    Bind(<<nested, startOffset, relativeOffset>>, LAMBDA v :
        IF v[1] = <<>> THEN [bytes |-> <<>>, marks |-> <<>>]
        ELSE Bind(<<extractBuffer(Head(v[1]), v[2] + v[3]),
                    extractNested(Tail(v[1]), v[2], v[3] + Head(v[1]).key.size)>>,
                  LAMBDA got :
                      [bytes |-> got[1].bytes \o got[2].bytes,
                       marks |-> got[1].marks \o got[2].marks]))

(***************************************************************************)
(* State                                                                   *)
(***************************************************************************)

VARIABLES
    keyUses,     \* PaletteLookupGenerator.keyUses: key -> number of uses
    added,       \* history: set of more than 2 colours -> number of Add calls
                 \* with a tile of exactly these colours
    ignored,     \* history: number of Add calls with a tile of 1 or 2 colours
    generates,   \* history: number of Generate calls since the last Add call
    pc,          \* where the caller of the generator is
    lookup,      \* the PaletteLookup Generate builds and returns
    remainder,   \* Generate's remainder; the cache's keys alias it
    size,        \* Generate's loop variable
    keysInSize,  \* the roots of the size class that are still to be packed
    entries,     \* nestedEntryCache.entries
    m,           \* nestedEntryCache.m: the holder of the mutex, <<>> when free
    frames,      \* the running populate calls: the driver's and the goroutines'
    call         \* the last call of Lookup: its tile and what it returned

vars == <<keyUses, added, ignored, generates, pc, lookup, remainder, size, keysInSize, entries, m,
          frames, call>>

genVars == <<lookup, remainder, size, keysInSize, entries, m, frames>>

NoCall == <<>>

\* A frame holds the locals of query's goroutine (entry), of populate
\* (remainingKey, foundSomething, keySearchSize) and of populateRemaining
\* (maxByteSize, maxNested, keySize, resultsPending).  A nil *nestedEntry is
\* <<>>, a pointer to e is <<e>>.  A frame is named by the keys on the way from
\* the root to it; the driver's populate call is <<root key>>.
Frame(label, entry) ==
    [pc |-> label, entry |-> entry,
     remainingKey |-> EmptyKey, foundSomething |-> FALSE, keySearchSize |-> 0,
     maxByteSize |-> 0, maxNested |-> <<>>, keySize |-> 0, resultsPending |-> 0]

\* populate, lines 150-152.
PopulateFrame(key) ==
    [Frame("loop", NewEntry(key)) EXCEPT
        !.remainingKey = key, !.foundSomething = TRUE, !.keySearchSize = key.size - 1]

IsDriver(id) == Len(id) = 1

Children(id) == {c \in DOMAIN frames : Len(c) = Len(id) + 1 /\ SubSeq(c, 1, Len(id)) = id}

Total(bag) ==
    LET RECURSIVE sum(_)
        sum(S) == IF S = {} THEN 0
                  ELSE LET x == CHOOSE x \in S : TRUE IN bag[x] + sum(S \ {x})
    IN  sum(DOMAIN bag)

Put(f, k, v) == [x \in (DOMAIN f) \cup {k} |-> IF x = k THEN v ELSE f[x]]

Perms(S) ==
    {s \in [1..Cardinality(S) -> S] : \A i, j \in 1..Cardinality(S) : s[i] = s[j] => i = j}

Init ==
    /\ keyUses = <<>>
    /\ added = <<>>
    /\ ignored = 0
    /\ generates = 0
    /\ pc = "idle"
    /\ lookup = EmptyLookup
    /\ remainder = {}
    /\ size = 0
    /\ keysInSize = <<>>
    /\ entries = <<>>
    /\ m = <<>>
    /\ frames = <<>>
    /\ call = NoCall

(***************************************************************************)
(* PaletteLookupGenerator.Add                                              *)
(***************************************************************************)

\* Add with the test "key.size >= 2".
RegisteredFromTwo(uses, key) ==
    IF key.size >= 2
    THEN [x \in (DOMAIN uses) \cup {key} |->
             IF x = key THEN (IF key \in DOMAIN uses THEN uses[key] + 1 ELSE 1)
             ELSE uses[x]]
    ELSE uses

\* Add without the test "key.size > 2".
RegisteredAlways(uses, key) ==
    [x \in (DOMAIN uses) \cup {key} |->
        IF x = key THEN (IF key \in DOMAIN uses THEN uses[key] + 1 ELSE 1)
        ELSE uses[x]]

\* "gen.keyUses[key]++" on the map, made first when it is nil.
Registered(uses, key) ==
    IF key.size > 2
    THEN Put(uses, key, IF key \in DOMAIN uses THEN uses[key] + 1 ELSE 1)
    ELSE uses

ColorsOf(tile) == {tile[p] : p \in Pixels}

Add(delta) ==
    /\ pc \in {"idle", "done"}
    /\ Total(added) + ignored < MaxAdds
    /\ keyUses' = Registered(keyUses, KeyOfTile(delta))
    /\ IF Cardinality(ColorsOf(delta)) > 2
       THEN /\ added' = Put(added, ColorsOf(delta),
                            IF ColorsOf(delta) \in DOMAIN added
                            THEN added[ColorsOf(delta)] + 1 ELSE 1)
            /\ ignored' = ignored
       ELSE /\ added' = added
            /\ ignored' = ignored + 1
    /\ generates' = 0
    /\ pc' = "idle"
    /\ call' = NoCall
    /\ UNCHANGED genVars

(***************************************************************************)
(* PaletteLookupGenerator.Generate: the driver                             *)
(***************************************************************************)

\* Generate that takes the keys out of keyUses instead of copying them.
GenerateBeginTakingKeys ==
    /\ pc \in {"idle", "done"}
    /\ generates < MaxGenerates
    /\ generates' = generates + 1
    /\ lookup' = EmptyLookup
    /\ remainder' = DOMAIN keyUses
    /\ keyUses' = <<>>
    /\ size' = PixelPerTile
    /\ keysInSize' = <<>>
    /\ entries' = <<>>
    /\ pc' = "scavenge"
    /\ call' = NoCall
    /\ UNCHANGED <<added, ignored, m, frames>>

\* Lines 210-218: a fresh lookup, remainder a copy of the keys of keyUses.
GenerateBegin ==
    /\ pc \in {"idle", "done"}
    /\ generates < MaxGenerates
    /\ generates' = generates + 1
    /\ lookup' = EmptyLookup
    /\ remainder' = DOMAIN keyUses
    /\ size' = PixelPerTile
    /\ keysInSize' = <<>>
    /\ entries' = <<>>
    /\ pc' = "scavenge"
    /\ call' = NoCall
    /\ UNCHANGED <<keyUses, added, ignored, m, frames>>

\* Lines 226-237: the starts "start < len(lookup.buffer) - key.size" at which
\* the window of key.size bytes contains the key.
WindowStarts(buf, key) ==
    {start \in 0..(Len(buf) - key.size - 1) :
        contains(useColors(EmptyKey, SubSeq(buf, start + 1, start + key.size)), key)}

\* Lines 221-243: the keys of the size class found in the buffer get the first
\* such start and leave the remainder.
earlyRemoved(buf, rem, sz) ==
    {key \in rem : key.size = sz /\ WindowStarts(buf, key) # {}}

FirstStart(buf, key) ==
    CHOOSE start \in WindowStarts(buf, key) :
        \A other \in WindowStarts(buf, key) : start <= other

\* Lines 218-250 without the loop "delete(remainder, key)" of lines 240-242.
ScavengeKeepingRemainder ==
    /\ pc = "scavenge"
    /\ size > 2
    /\ LET early == earlyRemoved(lookup.buffer, remainder, size)
       IN  /\ lookup' = [lookup EXCEPT !.starts =
                  [key \in (DOMAIN lookup.starts) \cup early |->
                      IF key \in early THEN FirstStart(lookup.buffer, key)
                      ELSE lookup.starts[key]]]
           /\ remainder' = remainder
           /\ \E order \in Perms({key \in remainder : key.size = size}) :
                  keysInSize' = order
    /\ pc' = "roots"
    /\ UNCHANGED <<keyUses, added, ignored, generates, size, entries, m, frames, call>>

\* Lines 218-250, one turn of the loop over the sizes up to the loop over
\* keysInSize; the order of keysInSize is the map's iteration order.
Scavenge ==
    /\ pc = "scavenge"
    /\ size > 2
    /\ LET early == earlyRemoved(lookup.buffer, remainder, size)
           rest == remainder \ early
       IN  /\ lookup' = [lookup EXCEPT !.starts =
                  [key \in (DOMAIN lookup.starts) \cup early |->
                      IF key \in early THEN FirstStart(lookup.buffer, key)
                      ELSE lookup.starts[key]]]
           /\ remainder' = rest
           /\ \E order \in Perms({key \in rest : key.size = size}) :
                  keysInSize' = order
    /\ pc' = "roots"
    /\ UNCHANGED <<keyUses, added, ignored, generates, size, entries, m, frames, call>>

\* Lines 252-259: the next root gets a fresh cache and its populate starts.
PackRoot ==
    /\ pc = "roots"
    /\ keysInSize # <<>>
    /\ entries' = <<>>
    /\ frames' = Put(<<>>, <<Head(keysInSize)>>, PopulateFrame(Head(keysInSize)))
    /\ pc' = "populate"
    /\ UNCHANGED <<keyUses, added, ignored, generates, lookup, remainder, size, keysInSize, m, call>>

\* The marker of lines 261-264 applied to the calls in order.
RECURSIVE markStarts(_, _)
markStarts(starts, marks) ==
    Bind(<<starts, marks>>, LAMBDA v :
        IF v[2] = <<>> THEN v[1]
        ELSE markStarts(Put(v[1], Head(v[2]).key, Head(v[2]).offset), Tail(v[2])))

\* Lines 261-268 without the loop "delete(remainder, key)".
ExtractKeepingRemainder ==
    /\ pc = "extract"
    /\ \E got \in {extractBuffer(frames[<<Head(keysInSize)>>].entry,
                                  Len(lookup.buffer))} :
           lookup' = [buffer |-> lookup.buffer \o got.bytes,
                      starts |-> markStarts(lookup.starts, got.marks)]
    /\ keysInSize' = Tail(keysInSize)
    /\ frames' = <<>>
    /\ entries' = <<>>
    /\ pc' = "roots"
    /\ UNCHANGED <<keyUses, added, ignored, generates, remainder, size, m, call>>

\* Lines 261-268 with extractBuffer called with offset 0 instead of
\* len(lookup.buffer).
ExtractAtZero ==
    /\ pc = "extract"
    /\ \E got \in {extractBuffer(frames[<<Head(keysInSize)>>].entry, 0)} :
           LET toRemove == {got.marks[i].key : i \in 1..Len(got.marks)}
           IN  /\ lookup' = [buffer |-> lookup.buffer \o got.bytes,
                             starts |-> markStarts(lookup.starts, got.marks)]
               /\ remainder' = remainder \ toRemove
    /\ keysInSize' = Tail(keysInSize)
    /\ frames' = <<>>
    /\ entries' = <<>>
    /\ pc' = "roots"
    /\ UNCHANGED <<keyUses, added, ignored, generates, size, m, call>>

\* Lines 261-268, after populate has returned.
Extract ==
    /\ pc = "extract"
    /\ \E got \in {extractBuffer(frames[<<Head(keysInSize)>>].entry,
                                  Len(lookup.buffer))} :
           LET toRemove == {got.marks[i].key : i \in 1..Len(got.marks)}
           IN  /\ lookup' = [buffer |-> lookup.buffer \o got.bytes,
                             starts |-> markStarts(lookup.starts, got.marks)]
               /\ remainder' = remainder \ toRemove
    /\ keysInSize' = Tail(keysInSize)
    /\ frames' = <<>>
    /\ entries' = <<>>
    /\ pc' = "roots"
    /\ UNCHANGED <<keyUses, added, ignored, generates, size, m, call>>

\* Line 218 with "size -= 2".
NextSizeByTwo ==
    /\ pc = "roots"
    /\ keysInSize = <<>>
    /\ size' = size - 2
    /\ pc' = "scavenge"
    /\ UNCHANGED <<keyUses, added, ignored, generates, lookup, remainder, keysInSize, entries, m, frames, call>>

\* Line 218, "size--", at the end of the loop over keysInSize.
NextSize ==
    /\ pc = "roots"
    /\ keysInSize = <<>>
    /\ size' = size - 1
    /\ pc' = "scavenge"
    /\ UNCHANGED <<keyUses, added, ignored, generates, lookup, remainder, keysInSize, entries, m, frames, call>>

\* Lines 272-275 over the keys in the given order.
RECURSIVE emitNaive(_, _)
emitNaive(lk, order) ==
    Bind(<<lk, order>>, LAMBDA v :
        IF v[2] = <<>> THEN v[1]
        ELSE emitNaive([buffer |-> v[1].buffer \o buffer(Head(v[2])),
                        starts |-> Put(v[1].starts, Head(v[2]), Len(v[1].buffer))],
                       Tail(v[2])))

\* Lines 272-277 with the loop of line 272 over gen.keyUses.
FinishOverKeyUses ==
    /\ pc = "scavenge"
    /\ ~(size > 2)
    /\ \E order \in Perms(DOMAIN keyUses) : lookup' = emitNaive(lookup, order)
    /\ pc' = "done"
    /\ UNCHANGED <<keyUses, added, ignored, generates, remainder, size, keysInSize, entries, m, frames, call>>

\* Lines 272-277: the loop over the sizes is over; what is left is appended
\* and the lookup returned.
Finish ==
    /\ pc = "scavenge"
    /\ ~(size > 2)
    /\ \E order \in Perms(remainder) : lookup' = emitNaive(lookup, order)
    /\ pc' = "done"
    /\ UNCHANGED <<keyUses, added, ignored, generates, remainder, size, keysInSize, entries, m, frames, call>>

(***************************************************************************)
(* nestedEntry.populate, populateRemaining and nestedEntryCache.query      *)
(***************************************************************************)

SetFrame(id, frame) == frames' = [frames EXCEPT ![id] = frame]

\* Line 153, the test of populate's loop: either populateRemaining is called
\* (lines 155, 163-165) or populate returns, the driver's to Generate and a
\* goroutine's to line 125.
PopulateLoop(id) ==
    /\ id \in DOMAIN frames
    /\ frames[id].pc = "loop"
    /\ LET f == frames[id]
       IN  IF f.remainingKey.size > 2 /\ f.foundSomething
           THEN /\ SetFrame(id, [f EXCEPT !.pc = "launch", !.maxByteSize = 0,
                                          !.maxNested = <<>>,
                                          !.keySize = f.keySearchSize])
                /\ pc' = pc
           ELSE /\ SetFrame(id, [Frame(IF IsDriver(id) THEN "returned" ELSE "lock2",
                                       f.entry) EXCEPT
                                    !.remainingKey = IF IsDriver(id) THEN f.remainingKey
                                                     ELSE EmptyKey])
                /\ pc' = IF IsDriver(id) THEN "extract" ELSE pc
    /\ UNCHANGED <<keyUses, added, ignored, generates, lookup, remainder, size, keysInSize, entries, m, call>>

\* Lines 169-170 without the test "remainingKey.contains(&otherKey)".
CandidatesOfSize(remainingKey, keySize) ==
    {otherKey \in remainder : otherKey.size = keySize}

\* Lines 169-170: the keys of the cache (the remainder) that are queried.
Candidates(remainingKey, keySize) ==
    {otherKey \in remainder :
        otherKey.size = keySize /\ contains(remainingKey, otherKey)}

\* populateRemaining without "entry.nested = append(entry.nested, *maxNested)".
AttachedNothing(f) ==
    LET foundSomething == f.maxNested # <<>>
        lastAddedKey == IF foundSomething THEN f.maxNested[1].key ELSE EmptyKey
    IN  Bind(without(f.remainingKey, lastAddedKey), LAMBDA remainingKey :
            [Frame("loop", f.entry) EXCEPT
                !.remainingKey = remainingKey,
                !.foundSomething = foundSomething,
                !.keySearchSize = remainingKey.size])

\* Lines 189-193 and then 156-157: populateRemaining returns the key it added
\* and populate takes it out of remainingKey.
Attached(f) ==
    LET foundSomething == f.maxNested # <<>>
        lastAddedKey == IF foundSomething THEN f.maxNested[1].key ELSE EmptyKey
    IN  Bind(without(f.remainingKey, lastAddedKey), LAMBDA remainingKey :
            [Frame("loop", IF foundSomething
                           THEN [f.entry EXCEPT !.nested = Append(@, f.maxNested[1])]
                           ELSE f.entry) EXCEPT
                !.remainingKey = remainingKey,
                !.foundSomething = foundSomething,
                !.keySearchSize = remainingKey.size])

\* Line 166, the test of populateRemaining's loop: either a channel is made
\* and a goroutine started for every candidate of the size (lines 167-176),
\* or populateRemaining returns.
RemainingLoop(id) ==
    /\ id \in DOMAIN frames
    /\ frames[id].pc = "launch"
    /\ LET f == frames[id]
           queried == Candidates(f.remainingKey, f.keySize)
       IN  IF f.keySize > 2 /\ f.maxNested = <<>>
           THEN frames' =
                  [x \in (DOMAIN frames) \cup {Append(id, otherKey) : otherKey \in queried} |->
                      IF x = id
                      THEN [f EXCEPT !.pc = "collect",
                                     !.resultsPending = Cardinality(queried)]
                      ELSE IF x \in DOMAIN frames THEN frames[x]
                      ELSE Frame("lock1", NewEntry(x[Len(x)]))]
           ELSE SetFrame(id, Attached(f))
    /\ UNCHANGED <<keyUses, added, ignored, generates, pc, lookup, remainder, size, keysInSize, entries, m, call>>

\* Lines 178-184 with "resultsPending--" inside the if.
ReceivedCountingLarger(f, nested) ==
    Bind(byteSize(nested), LAMBDA nestedSize :
        IF nestedSize > f.maxByteSize
        THEN [f EXCEPT !.maxByteSize = nestedSize, !.maxNested = <<nested>>,
                       !.resultsPending = @ - 1]
        ELSE f)

\* Lines 178-184 with the test "nestedSize < maxByteSize".
ReceivedSmaller(f, nested) ==
    Bind(byteSize(nested), LAMBDA nestedSize :
        IF nestedSize < f.maxByteSize
        THEN [f EXCEPT !.maxByteSize = nestedSize, !.maxNested = <<nested>>,
                       !.resultsPending = @ - 1]
        ELSE [f EXCEPT !.resultsPending = @ - 1])

\* Lines 178-184 without the test "nestedSize > maxByteSize": the result that
\* arrives last is kept.
ReceivedLast(f, nested) ==
    Bind(byteSize(nested), LAMBDA nestedSize :
        [f EXCEPT !.maxByteSize = nestedSize, !.maxNested = <<nested>>,
                  !.resultsPending = @ - 1])

\* Lines 178-184 on the parent's side.
Received(f, nested) ==
    Bind(byteSize(nested), LAMBDA nestedSize :
        IF nestedSize > f.maxByteSize
        THEN [f EXCEPT !.maxByteSize = nestedSize, !.maxNested = <<nested>>,
                       !.resultsPending = @ - 1]
        ELSE [f EXCEPT !.resultsPending = @ - 1])

\* The channel with query lacking the "return" of line 120: after its send the
\* goroutine goes on at line 123.
ReceiveThenPopulate(id, child) ==
    /\ id \in DOMAIN frames
    /\ frames[id].pc = "collect"
    /\ frames[id].resultsPending > 0
    /\ child \in Children(id)
    /\ frames[child].pc = "send"
    /\ frames' = [x \in DOMAIN frames |->
                     IF x = id THEN Received(frames[id], frames[child].entry)
                     ELSE IF x = child THEN PopulateFrame(frames[child].entry.key)
                     ELSE frames[x]]
    /\ UNCHANGED <<keyUses, added, ignored, generates, pc, lookup, remainder, size, keysInSize, entries, m, call>>

\* The unbuffered channel: the goroutine child, at "results <- nested" (line
\* 173, called from line 119 or 128), meets its parent at "<-results" (line
\* 178); the parent runs lines 179-184 and the goroutine ends.
Receive(id, child) ==
    /\ id \in DOMAIN frames
    /\ frames[id].pc = "collect"
    /\ frames[id].resultsPending > 0
    /\ child \in Children(id)
    /\ frames[child].pc = "send"
    /\ frames' = [x \in (DOMAIN frames) \ {child} |->
                     IF x = id THEN Received(frames[id], frames[child].entry)
                     ELSE frames[x]]
    /\ UNCHANGED <<keyUses, added, ignored, generates, pc, lookup, remainder, size, keysInSize, entries, m, call>>

\* Line 177 with the loop left as soon as a result has been kept.
CloseResultsEarly(id) ==
    /\ id \in DOMAIN frames
    /\ frames[id].pc = "collect"
    /\ ~(frames[id].resultsPending > 0 /\ frames[id].maxNested = <<>>)
    /\ frames' = [frames EXCEPT ![id] = [frames[id] EXCEPT !.pc = "launch",
                                                           !.keySize = @ - 1]]
    /\ UNCHANGED <<keyUses, added, ignored, generates, pc, lookup, remainder, size, keysInSize, entries, m, call>>

\* Line 177 with nothing pending, then lines 186-187.
CloseResults(id) ==
    /\ id \in DOMAIN frames
    /\ frames[id].pc = "collect"
    /\ ~(frames[id].resultsPending > 0)
    /\ SetFrame(id, [frames[id] EXCEPT !.pc = "launch", !.keySize = @ - 1])
    /\ UNCHANGED <<keyUses, added, ignored, generates, pc, lookup, remainder, size, keysInSize, entries, m, call>>

\* Line 115.
QueryLock(id) ==
    /\ id \in DOMAIN frames
    /\ frames[id].pc = "lock1"
    /\ m = <<>>
    /\ m' = id
    /\ SetFrame(id, [frames[id] EXCEPT !.pc = "read"])
    /\ UNCHANGED <<keyUses, added, ignored, generates, pc, lookup, remainder, size, keysInSize, entries, call>>

\* Lines 116-123: the cache is read and the mutex released; a cached entry is
\* handed to found, otherwise a new entry is made and populate called.
QueryRead(id) ==
    /\ id \in DOMAIN frames
    /\ frames[id].pc = "read"
    /\ LET key == frames[id].entry.key
           hasEntry == key \in DOMAIN entries
       IN  IF hasEntry
           THEN SetFrame(id, Frame("send", entries[key]))
           ELSE SetFrame(id, PopulateFrame(key))
    /\ m' = <<>>
    /\ UNCHANGED <<keyUses, added, ignored, generates, pc, lookup, remainder, size, keysInSize, entries, call>>

\* query without the Lock of line 125.
StoreWithoutLock(id) ==
    /\ id \in DOMAIN frames
    /\ frames[id].pc = "lock2"
    /\ frames' = [frames EXCEPT ![id] = [frames[id] EXCEPT !.pc = "write"]]
    /\ UNCHANGED <<keyUses, added, ignored, generates, pc, lookup, remainder, size, keysInSize, entries, m, call>>

\* Line 125.
StoreLock(id) ==
    /\ id \in DOMAIN frames
    /\ frames[id].pc = "lock2"
    /\ m = <<>>
    /\ m' = id
    /\ SetFrame(id, [frames[id] EXCEPT !.pc = "write"])
    /\ UNCHANGED <<keyUses, added, ignored, generates, pc, lookup, remainder, size, keysInSize, entries, call>>

\* Lines 126-128: the entry is stored, the mutex released and found called.
StoreWrite(id) ==
    /\ id \in DOMAIN frames
    /\ frames[id].pc = "write"
    /\ entries' = Put(entries, frames[id].entry.key, frames[id].entry)
    /\ m' = <<>>
    /\ SetFrame(id, [frames[id] EXCEPT !.pc = "send"])
    /\ UNCHANGED <<keyUses, added, ignored, generates, pc, lookup, remainder, size, keysInSize, call>>

(***************************************************************************)
(* PaletteLookup.Lookup                                                    *)
(***************************************************************************)

\* Lookup is called on the lookup Generate has returned.  Lookup leaves the
\* lookup alone, so a later call on it returns what a first call returns: the
\* model makes one call per returned lookup.
LookupTile(tile) ==
    /\ pc = "done"
    /\ call = NoCall
    /\ call' = Lookup(lookup, tile)
    /\ UNCHANGED <<keyUses, added, ignored, generates, pc, genVars>>

(***************************************************************************)
(* Specification                                                           *)
(***************************************************************************)

Populate ==
    \E id \in DOMAIN frames :
        \/ PopulateLoop(id)
        \/ RemainingLoop(id)
        \/ CloseResults(id)
        \/ \E child \in DOMAIN frames : Receive(id, child)
        \/ QueryLock(id)
        \/ QueryRead(id)
        \/ StoreLock(id)
        \/ StoreWrite(id)

Generate ==
    \/ GenerateBegin
    \/ Scavenge
    \/ PackRoot
    \/ Populate
    \/ Extract
    \/ NextSize
    \/ Finish

Next ==
    \/ \E delta \in Tiles : Add(delta)
    \/ Generate
    \/ \E tile \in Tiles : LookupTile(tile)

Spec == Init /\ [][Next]_vars

\* Lookup on its own, for tiles of up to PixelPerTile colours: Generate has
\* returned the lookup of one key K, or of K and a key of three colours of K
\* packed into it (K's buffer is then the three colours followed by K's other
\* colours), and Lookup is called with any tile of LookupTiles.
LookupColorSeq == [i \in 1..PixelPerTile |-> 16 * (i - 1) + 5]

LookupRuns ==
    {r \in (1..PixelPerTile) \X (1..PixelPerTile) : r[1] + r[2] - 1 <= PixelPerTile}

\* The run of n colours from first on, repeated over the pixels, forwards and
\* backwards.
LookupTiles ==
    {[p \in Pixels |-> LookupColorSeq[r[1] + (p % r[2])]] : r \in LookupRuns}
        \cup
    {[p \in Pixels |-> LookupColorSeq[r[1] + ((PixelPerTile - 1 - p) % r[2])]] :
        r \in LookupRuns}

\* The keys Generate was called with: a run of at least 3 colours, alone or
\* with its last three colours as a second key.
LookupKeySets ==
    LET keyOfRun(first, n) ==
            useColors(EmptyKey, [i \in 1..n |-> LookupColorSeq[first + i - 1]])
    IN  {{keyOfRun(r[1], r[2])} : r \in {x \in LookupRuns : x[2] >= 3}}
            \cup
        {{keyOfRun(r[1], r[2]), keyOfRun(r[1] + r[2] - 3, 3)} :
            r \in {x \in LookupRuns : x[2] >= 4}}

\* The lookup Generate returns for such keys: the larger key is the root, the
\* smaller one its nested entry.
LookupOfKeys(keys) ==
    LET root == CHOOSE K \in keys : \A other \in keys : other.size <= K.size
        entry == [key |-> root,
                  nested |-> IF keys = {root} THEN <<>>
                             ELSE <<NewEntry(CHOOSE K \in keys : K # root)>>]
        got == extractBuffer(entry, 0)
    IN  [buffer |-> got.bytes, starts |-> markStarts(<<>>, got.marks)]

LookupInit ==
    \E keys \in LookupKeySets :
        /\ keyUses = [K \in keys |-> 1]
        /\ added = [S \in {BytesOf(K) : K \in keys} |-> 1]
        /\ ignored = 0
        /\ generates = 1
        /\ pc = "done"
        /\ lookup = LookupOfKeys(keys)
        /\ remainder = {}
        /\ size = 2
        /\ keysInSize = <<>>
        /\ entries = <<>>
        /\ m = <<>>
        /\ frames = <<>>
        /\ call = NoCall

LookupNext == \E tile \in LookupTiles : LookupTile(tile)

LookupSpec == LookupInit /\ [][LookupNext]_vars

\* The steps of a Generate call that has begun.  The Go scheduler runs some
\* goroutine that can run, and the caller lets Generate run until it returns.
Running ==
    \/ Scavenge
    \/ PackRoot
    \/ Populate
    \/ Extract
    \/ NextSize
    \/ Finish

FairSpec == Spec /\ WF_vars(Running)

(***************************************************************************)
(* Properties                                                              *)
(***************************************************************************)

\* The palette indices of a key, read off the four words.
ColorSet(key) ==
    UNION {{w * WordBits + b : b \in key.usedColors[w]} : w \in DOMAIN key.usedColors}

\* The key of a set of palette indices.
KeyOfSet(S) ==
    [usedColors |-> [w \in 0..(KeyWords - 1) |->
                        {c % WordBits : c \in {x \in S : x \div WordBits = w}}],
     size |-> Cardinality(S)]

\* The bytes buf[s .. s+n) of a buffer indexed from 0.
Window(buf, s, n) == [i \in 1..n |-> buf[s + i]]

Range(seq) == {seq[i] : i \in 1..Len(seq)}

RegisteredKeys == DOMAIN keyUses

RECURSIVE SumSizes(_)
SumSizes(keys) ==
    IF keys = {} THEN 0
    ELSE LET k == CHOOSE k \in keys : TRUE IN k.size + SumSizes(keys \ {k})

\* C1. Dictionary completeness: when Generate has returned, every registered
\* key K (3 <= K.size <= PixelPerTile) has an entry starts[K] with
\* 0 <= starts[K] and starts[K] + K.size <= len(buffer), and the bytes of the
\* buffer from starts[K] to starts[K] + K.size contain K.
DictionaryComplete ==
    pc = "done" =>
        \A K \in RegisteredKeys :
            (3 <= K.size /\ K.size <= PixelPerTile) =>
                /\ K \in DOMAIN lookup.starts
                /\ 0 <= lookup.starts[K]
                /\ lookup.starts[K] + K.size <= Len(lookup.buffer)
                /\ ColorSet(K) \subseteq
                       Range(Window(lookup.buffer, lookup.starts[K], K.size))

\* Generate has returned a lookup of three keys, one of them placed behind
\* the start of the buffer.
DictionaryCompleteWitness ==
    /\ pc = "done"
    /\ Cardinality(RegisteredKeys) = 3
    /\ \E K \in RegisteredKeys : K \in DOMAIN lookup.starts /\ lookup.starts[K] > 0

\* The decoder's bitSize: the number of bits of size - 1.
BitSizeOf(n) == CHOOSE b \in 0..8 : 2 ^ b >= n /\ (b = 0 \/ 2 ^ (b - 1) < n)

\* (mask >> (i * bitSize)) & ((1 << bitSize) - 1), the mask being the set of
\* its set bits.
RECURSIVE FieldBits(_, _, _)
FieldBits(mask, low, bitSize) ==
    IF bitSize = 0 THEN 0
    ELSE (IF low \in mask THEN 1 ELSE 0) + 2 * FieldBits(mask, low + 1, bitSize - 1)

Field(c, i) ==
    LET bitSize == BitSizeOf(Cardinality(ColorsOf(c.tile)))
    IN  FieldBits(c.mask, i * bitSize, bitSize)

\* The last call of Lookup was made with a tile whose key is registered.
CallOfRegistered ==
    /\ call # NoCall
    /\ KeyOfSet(ColorsOf(call.tile)) \in RegisteredKeys

\* C2. Round trip: Lookup of a registered tile T on the lookup Generate
\* returned yields (index, pal, mask) such that reading the PixelPerTile
\* fields of bitSize bits of the mask, pixel 0 in the low-order bits, gives
\* pal[field] = T[i], and so does the decoder's buffer[index + field].
RoundTrip ==
    CallOfRegistered =>
        \A i \in Pixels :
            /\ Field(call, i) < Len(call.pal)
            /\ call.pal[Field(call, i) + 1] = call.tile[i]
            /\ call.index + Field(call, i) < Len(lookup.buffer)
            /\ lookup.buffer[call.index + Field(call, i) + 1] = call.tile[i]

\* Lookup of a registered tile that is not a palindrome, found behind the start
\* of the buffer with a palette that is not in ascending order.
RoundTripWitness ==
    /\ CallOfRegistered
    /\ call.index > 0
    /\ call.pal # ascending(Range(call.pal))
    /\ call.tile[0] # call.tile[PixelPerTile - 1]

\* C3. Buffer reconstructs key: when Generate has returned, for every key K
\* with an entry starts[K] = s the K.size bytes of the buffer from s on are in
\* the buffer, are pairwise distinct and are exactly the palette indices of K.
BufferReconstructsKey ==
    pc = "done" =>
        \A K \in DOMAIN lookup.starts :
            LET s == lookup.starts[K]
            IN  /\ 0 <= s /\ s + K.size <= Len(lookup.buffer)
                /\ \A i, j \in 1..K.size :
                       lookup.buffer[s + i] = lookup.buffer[s + j] => i = j
                /\ Range(Window(lookup.buffer, s, K.size)) = ColorSet(K)

\* Generate has returned a lookup in which two keys start at the same offset
\* (a key nested in its root) and a third key lies in the middle of the buffer.
BufferReconstructsKeyWitness ==
    /\ pc = "done"
    /\ \E K1, K2, K3 \in DOMAIN lookup.starts :
           /\ K1 # K2
           /\ lookup.starts[K1] = lookup.starts[K2]
           /\ lookup.starts[K3] > lookup.starts[K1]
           /\ lookup.starts[K3] + K3.size < Len(lookup.buffer)

\* C4. Monotone compression: the buffer Generate returns is no longer than
\* the sum of the sizes of the distinct registered keys.
MonotoneCompression ==
    pc = "done" => Len(lookup.buffer) <= SumSizes(RegisteredKeys)

\* Generate has returned a buffer that is shorter than the naive layout of
\* three registered keys.
MonotoneCompressionWitness ==
    /\ pc = "done"
    /\ Cardinality(RegisteredKeys) = 3
    /\ Len(lookup.buffer) < SumSizes(RegisteredKeys)

\* The last call of Lookup was made with a tile whose key has no entry.
CallMissed ==
    /\ call # NoCall
    /\ KeyOfSet(ColorsOf(call.tile)) \notin DOMAIN lookup.starts

\* The offsets a call of Lookup that finds its key returns.
HitOffsets == {lookup.starts[K] : K \in DOMAIN lookup.starts}

\* C5 as stated. Lookup miss: Lookup of a tile whose key has no entry in starts
\* returns the key's bytes in ascending order as the palette and, as index, a
\* value that no successful Lookup returns.
LookupMissSentinel ==
    CallMissed =>
        /\ call.pal = ascending(ColorsOf(call.tile))
        /\ call.index \notin HitOffsets

\* C5 as amended. Lookup miss: Lookup of a tile whose key has no entry in
\* starts returns the key's bytes in ascending order as the palette and 0 as
\* index, the offset of the first key of the buffer.
LookupMiss ==
    CallMissed =>
        /\ call.pal = ascending(ColorsOf(call.tile))
        /\ call.index = 0

\* Lookup of a tile of two colours on a lookup that holds a key at offset 0.
LookupMissWitness ==
    /\ CallMissed
    /\ Cardinality(ColorsOf(call.tile)) = 2
    /\ 0 \in HitOffsets

\* C6. Add registration: after any sequence of Add calls keyUses holds exactly
\* the keys of the added tiles of more than 2 colours, each with the number of
\* added tiles of that key; a tile of 1 or 2 colours leaves keyUses as it is
\* (no history of such tiles is kept in added, so keyUses does not change).
AddRegistration ==
    /\ DOMAIN keyUses = {KeyOfSet(S) : S \in DOMAIN added}
    /\ \A S \in DOMAIN added :
           Cardinality(S) > 2 /\ keyUses[KeyOfSet(S)] = added[S]
    /\ Total(added) + ignored <= MaxAdds

\* A key was added twice, another tile had too few colours.
AddRegistrationWitness ==
    /\ ignored >= 1
    /\ \E K \in RegisteredKeys : keyUses[K] = 2

\* C7. Generate is repeatable: no step other than Add changes keyUses, and the
\* lookup a second Generate call on the same generator returns satisfies
\* dictionary completeness and the round trip.
GenerateRepeatable ==
    /\ [][pc' # "idle" => keyUses' = keyUses]_vars
    /\ [](generates >= 2 => DictionaryComplete /\ RoundTrip)

\* The second Generate call has returned a lookup of two keys and a registered
\* tile was looked up in it.
GenerateRepeatableWitness ==
    /\ pc = "done"
    /\ generates = 2
    /\ Cardinality(RegisteredKeys) >= 2
    /\ CallOfRegistered

D1 == KeyOfSet({1, 2, 3})

D2 == KeyOfSet({100, 101, 102})

\* C8 as stated. Disjoint keys: when the registered keys are exactly
\* D1 = {1,2,3} and D2 = {100,101,102}, the buffer Generate returns is
\* [1,2,3,100,101,102] with starts[D1] = 0 and starts[D2] = 3.
DisjointKeysFixedOrder ==
    (pc = "done" /\ RegisteredKeys = {D1, D2}) =>
        /\ lookup.buffer = <<1, 2, 3, 100, 101, 102>>
        /\ lookup.starts[D1] = 0
        /\ lookup.starts[D2] = 3

\* C8 as amended. Disjoint keys: when the registered keys are exactly D1 and
\* D2, Generate places both at successive offsets in either order: the buffer
\* is [1,2,3,100,101,102] with starts[D1] = 0, starts[D2] = 3, or
\* [100,101,102,1,2,3] with starts[D2] = 0, starts[D1] = 3.
DisjointKeys ==
    (pc = "done" /\ RegisteredKeys = {D1, D2}) =>
        /\ DOMAIN lookup.starts = {D1, D2}
        /\ \/ /\ lookup.buffer = <<1, 2, 3, 100, 101, 102>>
              /\ lookup.starts[D1] = 0
              /\ lookup.starts[D2] = 3
           \/ /\ lookup.buffer = <<100, 101, 102, 1, 2, 3>>
              /\ lookup.starts[D2] = 0
              /\ lookup.starts[D1] = 3

\* Generate has returned the two disjoint keys with D2 first.
DisjointKeysWitness ==
    /\ pc = "done"
    /\ RegisteredKeys = {D1, D2}
    /\ lookup.buffer = <<100, 101, 102, 1, 2, 3>>

\* C9. Two-key containment: when the registered keys are exactly K1 and K2
\* with K2 a strict subset of K1, the buffer Generate returns has length
\* K1.size and is K2's bytes in ascending order followed by the bytes of K1
\* that are not in K2 in ascending order, and starts[K1] = starts[K2] = 0.
TwoKeyContainment ==
    pc = "done" =>
        \A K1, K2 \in RegisteredKeys :
            (/\ RegisteredKeys = {K1, K2}
             /\ K1 # K2
             /\ ColorSet(K2) \subseteq ColorSet(K1)) =>
                /\ Len(lookup.buffer) = K1.size
                /\ lookup.buffer = ascending(ColorSet(K2)) \o
                                   ascending(ColorSet(K1) \ ColorSet(K2))
                /\ K1 \in DOMAIN lookup.starts /\ lookup.starts[K1] = 0
                /\ K2 \in DOMAIN lookup.starts /\ lookup.starts[K2] = 0

\* Generate has returned a key of 5 colours with the only other key, of 3
\* colours, nested in it, the buffer not being in ascending order.
TwoKeyContainmentWitness ==
    /\ pc = "done"
    /\ \E K1, K2 \in RegisteredKeys :
           /\ RegisteredKeys = {K1, K2}
           /\ K1.size = 5 /\ K2.size = 3
           /\ ColorSet(K2) \subseteq ColorSet(K1)
           /\ lookup.buffer # ascending(ColorSet(K1))

\* A collector waits for exactly the goroutines it has started and that have
\* not handed over their result; nobody else has goroutines, every goroutine
\* has its collector, and outside of populate only the driver's call is left.
CollectorsBalanced ==
    /\ \A id \in DOMAIN frames :
           /\ IF frames[id].pc = "collect"
              THEN frames[id].resultsPending = Cardinality(Children(id))
              ELSE Children(id) = {}
           /\ ~IsDriver(id) =>
                  /\ SubSeq(id, 1, Len(id) - 1) \in DOMAIN frames
                  /\ frames[SubSeq(id, 1, Len(id) - 1)].pc = "collect"
    /\ pc # "populate" => \A id \in DOMAIN frames : IsDriver(id)

\* A populate call for a key of size n runs at most n - 3 calls below the
\* root's.
DepthBounded ==
    \A id \in DOMAIN frames :
        /\ Len(id) <= id[1].size - 2
        /\ \A i \in 1..(Len(id) - 1) : id[i + 1].size < id[i].size

\* C10. Generate runs to completion: under fair scheduling every collector
\* waits for exactly as many results as goroutines it started are still to
\* deliver, the depth of the recursion is bounded by the key size, and every
\* Generate call that has begun returns a lookup.
GenerateTerminates ==
    /\ [](CollectorsBalanced /\ DepthBounded)
    /\ (pc \notin {"idle", "done"}) ~> (pc = "done")

\* A collector waits for two results while one of its goroutines is ready to
\* send and the other holds the mutex.
GenerateTerminatesWitness ==
    \E id \in DOMAIN frames :
        /\ frames[id].pc = "collect"
        /\ frames[id].resultsPending = 2
        /\ \E c1, c2 \in Children(id) :
               frames[c1].pc = "send" /\ frames[c2].pc = "write"

\* C11. Mask does not overflow: for every tile of PixelPerTile = 16 pixels the
\* bitSize (size 3 -> 2, 4 -> 2, 5 -> 3, 16 -> 4) times PixelPerTile is at most
\* 64, every palette position written into the mask is below 2^bitSize, and
\* every pixel's field of the returned mask holds exactly the position written
\* for it: no field overlaps another or is shifted out of the mask.
MaskFits ==
    /\ PixelPerTile = 16
    /\ bitsLen(3 - 1) = 2 /\ bitsLen(4 - 1) = 2 /\ bitsLen(5 - 1) = 3
    /\ bitsLen(16 - 1) = 4
    /\ call # NoCall =>
           LET bitSize == BitSizeOf(Cardinality(ColorsOf(call.tile)))
           IN  /\ bitSize = bitsLen(KeyOfTile(call.tile).size - 1)
               /\ bitSize * PixelPerTile <= MaskBits
               /\ call.mask \subseteq 0..(bitSize * PixelPerTile - 1)
               /\ \A i \in Pixels :
                      /\ Mapped(call.pal, call.tile[i]) < 2 ^ bitSize
                      /\ Field(call, i) = Mapped(call.pal, call.tile[i])

\* Lookup of a tile of 16 colours in the lookup that holds its key with a
\* nested key: the top four bits of the mask are used and the palette is not
\* ascending.
MaskFitsWitness ==
    /\ call # NoCall
    /\ Cardinality(ColorsOf(call.tile)) = 16
    /\ KeyOfTile(call.tile) \in DOMAIN lookup.starts
    /\ call.pal # ascending(Range(call.pal))
    /\ call.mask \cap ((MaskBits - 4)..(MaskBits - 1)) # {}

\* The starts s with 0 <= s <= len(buf) - key.size at which the window of
\* key.size bytes contains the key.
LegalStarts(buf, key) ==
    {s \in 0..(Len(buf) - key.size) :
        ColorSet(key) \subseteq Range(Window(buf, s, key.size))}

\* The prefix scavenging of one size class has run.
ScavengeStep ==
    pc = "scavenge" /\ size > 2 /\ pc' = "roots"

\* C12. Prefix scavenging: when a size class is processed, every unplaced key
\* K of that size that some window of K.size bytes of the existing buffer
\* (at any start s, 0 <= s <= len(buffer) - K.size) contains is claimed:
\* starts[K] is the smallest such s, K leaves the remainder and does not
\* become a packing root, and the buffer is not changed.
PrefixScavenging ==
    [][ScavengeStep =>
          \A K \in remainder :
              (K.size = size /\ LegalStarts(lookup.buffer, K) # {}) =>
                  /\ K \notin remainder'
                  /\ K \notin Range(keysInSize')
                  /\ K \in DOMAIN lookup'.starts
                  /\ lookup'.starts[K] \in LegalStarts(lookup.buffer, K)
                  /\ \A s \in LegalStarts(lookup.buffer, K) : lookup'.starts[K] <= s
                  /\ lookup'.buffer = lookup.buffer]_vars

(***************************************************************************)
(* Packing on its own: Generate is called on a generator that holds one of *)
(* a few sets of keys, chosen so that one key is populated by two          *)
(* goroutines at once, that candidates tie, that candidates of one size    *)
(* differ in byteSize, and that a child has a sibling and a child.         *)
(***************************************************************************)

PackKeySets ==
    {{KeyOfSet({1, 2, 3, 100, 101, 102}), KeyOfSet({1, 2, 3, 100, 101}),
      KeyOfSet({1, 2, 3, 100, 102}), KeyOfSet({1, 2, 3, 100}),
      KeyOfSet({1, 2, 3}), KeyOfSet({2, 3, 100})},
     {KeyOfSet({1, 2, 3, 100, 101}), KeyOfSet({1, 2, 3, 100}),
      KeyOfSet({2, 3, 100, 101}), KeyOfSet({1, 2, 3})},
     {KeyOfSet({1, 2, 3, 100, 101, 102}), KeyOfSet({1, 2, 3}),
      KeyOfSet({3, 100, 101}), KeyOfSet({100, 101, 102})},
     {KeyOfSet({1, 2, 3, 4, 100, 101, 102}), KeyOfSet({1, 2, 3, 4}),
      KeyOfSet({1, 2, 3}), KeyOfSet({100, 101, 102})}}

PackInit ==
    \E keys \in PackKeySets :
        /\ keyUses = [K \in keys |-> 1]
        /\ added = [S \in {ColorSet(K) : K \in keys} |-> 1]
        /\ ignored = 0
        /\ generates = 0
        /\ pc = "idle"
        /\ lookup = EmptyLookup
        /\ remainder = {}
        /\ size = 0
        /\ keysInSize = <<>>
        /\ entries = <<>>
        /\ m = <<>>
        /\ frames = <<>>
        /\ call = NoCall

PackNext == Generate

PackSpec == PackInit /\ [][PackNext]_vars

FairPackSpec == PackSpec /\ WF_vars(Running)

\* The entries populate can return for a key, the pool being the remainder:
\* populate's loop (lines 153-158) with populateRemaining (lines 163-193) run
\* for every result each queried key can hand over and every order in which
\* the results can arrive (of the results with the largest byteSize any can be
\* the first).
RECURSIVE PopulateResults(_)
RECURSIVE PopulateFrom(_, _, _)
RECURSIVE RemainingResults(_, _)
PopulateResults(key) ==
    PopulateFrom(NewEntry(key), key, key.size - 1)

PopulateFrom(entry, remainingKey, keySearchSize) ==
    IF ~(remainingKey.size > 2) THEN {entry}
    ELSE LET found == RemainingResults(remainingKey, keySearchSize)
         IN  IF found = {} THEN {entry}
             ELSE UNION {PopulateFrom([entry EXCEPT !.nested = Append(@, nested)],
                                      without(remainingKey, nested.key),
                                      without(remainingKey, nested.key).size) :
                             nested \in found}

RemainingResults(remainingKey, startSize) ==
    LET sizes == {keySize \in 3..startSize : Candidates(remainingKey, keySize) # {}}
    IN  IF sizes = {} THEN {}
        ELSE LET keySize == CHOOSE s \in sizes : \A other \in sizes : other <= s
                 queried == Candidates(remainingKey, keySize)
                 results == [otherKey \in queried |-> PopulateResults(otherKey)]
                 handed == {f \in [queried -> UNION {results[k] : k \in queried}] :
                               \A k \in queried : f[k] \in results[k]}
             IN  UNION {{f[k] : k \in {x \in queried :
                                          \A y \in queried :
                                              byteSize(f[y]) <= byteSize(f[x])}} :
                           f \in handed}

\* The populate calls that have returned: the goroutines that are about to
\* store their entry, and the driver's.
Populated ==
    {id \in DOMAIN frames : frames[id].pc \in {"lock2", "write", "returned"}}

\* C13 as stated. Populate is a pure function of key and pool: while the pool
\* is the same, any two populate calls for the same key return the same
\* entry, whatever the scheduling and the order of arrival of the results.
PopulatePure ==
    \A id \in Populated :
        LET key == frames[id].entry.key
        IN  /\ \A other \in Populated :
                   frames[other].entry.key = key =>
                       frames[other].entry = frames[id].entry
            /\ key \in DOMAIN entries => entries[key] = frames[id].entry

\* C13 as amended. Populate is a function of key and pool up to ties: every
\* populate call returns one of the entries obtained by attaching, in each
\* populateRemaining, a queried key whose result has the largest byteSize;
\* when no two results tie there is exactly one such entry.
PopulateUpToTies ==
    \A id \in Populated :
        frames[id].entry \in PopulateResults(frames[id].entry.key)

\* Two goroutines have populated the same key for the same pool and hold
\* different entries, one of them with a nested entry.
PopulateUpToTiesWitness ==
    \E id, other \in Populated :
        /\ frames[id].entry.key = frames[other].entry.key
        /\ frames[id].entry # frames[other].entry
        /\ frames[id].entry.nested # <<>>

\* The pool keys that populateRemaining(remainingKey, startSize) can attach:
\* those contained in remainingKey with a size in startSize..3.
Contained(remainingKey, startSize) ==
    {O \in remainder :
        contains(remainingKey, O) /\ 3 <= O.size /\ O.size <= startSize}

\* The populateRemaining calls that are about to return (line 189).
Returning ==
    {id \in DOMAIN frames :
        /\ frames[id].pc = "launch"
        /\ ~(frames[id].keySize > 2 /\ frames[id].maxNested = <<>>)}

\* What populateRemaining is about to attach: a contained pool key of the
\* largest size that has contained pool keys, with the byteSize recorded as the
\* largest; nothing when there is no contained pool key.
ChildChosen ==
    \A id \in Returning :
        LET f == frames[id]
            contained == Contained(f.remainingKey, f.keySearchSize)
        IN  IF contained = {} THEN f.maxNested = <<>>
            ELSE /\ f.maxNested # <<>>
                 /\ f.maxNested[1].key \in contained
                 /\ \A O \in contained : O.size <= f.maxNested[1].key.size
                 /\ byteSize(f.maxNested[1]) = f.maxByteSize

\* The steps of populateRemaining: the launch queries every contained pool key
\* of the size; a result that is received raises the recorded byteSize to its
\* own if that is larger, and the recorded entry has the recorded byteSize;
\* the return attaches the recorded entry, or attaches nothing and makes
\* populate stop.
ChildSteps ==
    \A id \in (DOMAIN frames) \cap (DOMAIN frames') :
        LET f == frames[id]
            g == frames'[id]
        IN  /\ (f.pc = "launch" /\ g.pc = "collect") =>
                   {c[Len(c)] : c \in {x \in DOMAIN frames' :
                                          Len(x) = Len(id) + 1 /\
                                          SubSeq(x, 1, Len(id)) = id}}
                       = {O \in remainder : O.size = f.keySize /\
                                            ColorSet(O) \subseteq ColorSet(f.remainingKey)}
            /\ (f.pc = "collect" /\ g.resultsPending # f.resultsPending) =>
                   \E child \in Children(id) \ DOMAIN frames' :
                       LET nestedSize == byteSize(frames[child].entry)
                       IN  /\ g.maxByteSize =
                                  IF nestedSize > f.maxByteSize THEN nestedSize
                                  ELSE f.maxByteSize
                           /\ g.maxNested # <<>>
                           /\ byteSize(g.maxNested[1]) = g.maxByteSize
                           /\ g.maxNested[1].key.size = f.keySize
                           /\ ColorSet(g.maxNested[1].key) \subseteq ColorSet(f.remainingKey)
            /\ (f.pc = "launch" /\ g.pc = "loop") =>
                   IF f.maxNested = <<>>
                   THEN g.entry = f.entry /\ ~g.foundSomething
                   ELSE /\ g.entry.nested = Append(f.entry.nested, f.maxNested[1])
                        /\ g.foundSomething
            /\ (f.pc = "loop" /\ ~f.foundSomething /\ g # f) =>
                   g.pc \in {"lock2", "returned"} /\ g.entry = f.entry

\* C14. Child selection in populateRemaining(remainingKey, startSize): the
\* attached child is a pool key contained in remainingKey whose size is the
\* largest size in startSize..3 that any contained pool key has, and its
\* populated byteSize is the largest among the results of all contained pool
\* keys of that size; if there is no contained pool key of a size in
\* startSize..3 nothing is attached and populate stops.
ChildSelection ==
    /\ []ChildChosen
    /\ [][ChildSteps]_vars

\* populateRemaining is about to attach a key that had a rival of the same
\* size with a smaller byteSize.
ChildSelectionWitness ==
    \E id \in Returning :
        /\ frames[id].maxNested # <<>>
        /\ frames[id].maxNested[1].nested # <<>>
        /\ \E O \in Contained(frames[id].remainingKey, frames[id].keySearchSize) :
               /\ O # frames[id].maxNested[1].key
               /\ O.size = frames[id].maxNested[1].key.size
               /\ \A e \in PopulateResults(O) : byteSize(e) < frames[id].maxByteSize

\* The goroutines started by nestedEntryCache.query that have not ended.
Goroutines == {id \in DOMAIN frames : ~IsDriver(id)}

\* C15. The candidate pool (remainder) is never changed while a packer query
\* is in flight: goroutines exist only while the driver is inside populate,
\* no step taken then changes remainder, buffer or starts, and at every step
\* that deletes a key from remainder or writes buffer or starts no goroutine
\* is left and the mutex is free.
PoolUntouched ==
    /\ [](Goroutines # {} => pc = "populate")
    /\ [][pc = "populate" => (remainder' = remainder /\ lookup' = lookup)]_vars
    /\ [][(remainder' # remainder \/ lookup' # lookup) =>
              (Goroutines = {} /\ m = <<>>)]_vars

\* populate has returned to the driver with a nested entry that goroutines
\* have built, and the driver is about to extract it and delete its keys.
PoolUntouchedWitness ==
    /\ pc = "extract"
    /\ frames[<<Head(keysInSize)>>].entry.nested # <<>>
    /\ Cardinality(remainder) >= 2

\* The step from the state to the primed state is frame id's read of
\* cache.keys (line 169): its populateRemaining queries the pool.
ReadsKeys(id) ==
    /\ frames[id].pc = "launch"
    /\ frames'[id].pc = "collect"

\* The step is frame id's read of cache.entries (line 116).
ReadsEntries(id) ==
    /\ frames[id].pc = "read"
    /\ frames'[id] # frames[id]

\* The step is frame id's write of cache.entries (line 126).
WritesEntries(id) ==
    /\ frames[id].pc = "write"
    /\ frames'[id] # frames[id]

\* C16 as stated. Cache locking: every read and every write of the entries map
\* and every read of the keys snapshot by a goroutine during populate happens
\* while that goroutine holds the cache mutex.
CacheLocked ==
    [][\A id \in (DOMAIN frames) \cap (DOMAIN frames') :
           (ReadsEntries(id) \/ WritesEntries(id) \/ ReadsKeys(id)) => m = id]_vars

\* C16 as amended. Cache locking: every read and every write of the entries
\* map happens while the goroutine holds the cache mutex, entries changes
\* during populate in no other step, and at most one goroutine is between
\* Lock and Unlock; the keys snapshot is read (line 169) without the mutex.
EntriesLocked ==
    /\ [][\A id \in (DOMAIN frames) \cap (DOMAIN frames') :
              /\ (ReadsEntries(id) \/ WritesEntries(id)) => m = id
              /\ ReadsKeys(id) => m # id]_vars
    /\ [][(pc = "populate" /\ pc' = "populate" /\ entries' # entries) =>
              (m \in DOMAIN frames /\ WritesEntries(m))]_vars
    /\ [](\A id \in DOMAIN frames : frames[id].pc \in {"read", "write"} <=> m = id)

\* A goroutine holds the mutex to store its entry while another one is about
\* to read the keys snapshot.
EntriesLockedWitness ==
    \E id, other \in DOMAIN frames :
        /\ frames[id].pc = "write"
        /\ m = id
        /\ frames[other].pc = "launch"
        /\ frames[other].keySize > 2
        /\ frames[other].maxNested = <<>>

\* The keys of a tree of nested entries, the root's first.
RECURSIVE TreeKeys(_)
RECURSIVE NestedKeys(_)
TreeKeys(entry) == <<entry.key>> \o NestedKeys(entry.nested)

NestedKeys(nested) ==
    IF nested = <<>> THEN <<>>
    ELSE TreeKeys(Head(nested)) \o NestedKeys(Tail(nested))

\* Every child's key is a non-empty strict subset of its parent's key, has at
\* least 3 colours and is in the pool; the children of a node are pairwise
\* disjoint; and so on below.
RECURSIVE WellNested(_)
WellNested(entry) ==
    /\ \A i \in 1..Len(entry.nested) :
           LET child == entry.nested[i]
           IN  /\ ColorSet(child.key) # {}
               /\ ColorSet(child.key) \subseteq ColorSet(entry.key)
               /\ ColorSet(child.key) # ColorSet(entry.key)
               /\ child.key.size >= 3
               /\ child.key \in remainder
               /\ WellNested(child)
    /\ \A i, j \in 1..Len(entry.nested) :
           i # j => ColorSet(entry.nested[i].key) \cap ColorSet(entry.nested[j].key) = {}

\* The nested entries there are: those the populate calls build or hand over
\* and those of the cache.
NestedEntries ==
    {frames[id].entry : id \in DOMAIN frames}
        \cup {entries[key] : key \in DOMAIN entries}
        \cup UNION {Range(frames[id].maxNested) : id \in DOMAIN frames}

\* C17. Nested tree invariant: in every nested entry populate produces each
\* child's key is a strict, non-empty subset of its parent's key with at least
\* 3 colours, the children of one node are pairwise disjoint, every child key
\* is in the candidate pool, and no key occurs more than once in a tree.
NestedTree ==
    \A entry \in NestedEntries :
        /\ WellNested(entry)
        /\ Cardinality(Range(TreeKeys(entry))) = Len(TreeKeys(entry))

\* An entry with two children, one of which has a child of its own.
NestedTreeWitness ==
    \E entry \in NestedEntries :
        /\ Len(entry.nested) = 2
        /\ \E i \in 1..2 : entry.nested[i].nested # <<>>

\* An entry and all entries nested in it, at any depth.
RECURSIVE SubEntries(_)
SubEntries(entry) ==
    {entry} \cup UNION {SubEntries(entry.nested[i]) : i \in 1..Len(entry.nested)}

\* The sum of the key sizes of the first n children of an entry.
RECURSIVE SizesBefore(_, _)
SizesBefore(entry, n) ==
    IF n = 0 THEN 0
    ELSE entry.nested[n].key.size + SizesBefore(entry, n - 1)

\* The start offsets extractBuffer is tried with.
ExtractOffsets == {0, Len(lookup.buffer), 7}

\* What the claim says of extractBuffer(node, startOffset, mark).
ExtractedAsNested(node, startOffset) ==
    LET got == extractBuffer(node, startOffset)
        covered == SizesBefore(node, Len(node.nested))
        offsetOf(key) == {got.marks[i].offset :
                             i \in {j \in 1..Len(got.marks) : got.marks[j].key = key}}
    IN  /\ got.marks[1] = [key |-> node.key, offset |-> startOffset]
        /\ Len(got.bytes) = node.key.size
        /\ Range(got.bytes) = ColorSet(node.key)
        /\ \A i \in 1..Len(node.nested) :
               LET child == node.nested[i]
                   relativeOffset == SizesBefore(node, i - 1)
               IN  /\ offsetOf(child.key) = {startOffset + relativeOffset}
                   /\ SubSeq(got.bytes, relativeOffset + 1,
                             relativeOffset + child.key.size)
                          = extractBuffer(child, startOffset + relativeOffset).bytes
        /\ SubSeq(got.bytes, covered + 1, node.key.size)
               = ascending(ColorSet(node.key) \
                           UNION {ColorSet(node.nested[i].key) :
                                      i \in 1..Len(node.nested)})

\* C18. extractBuffer(node, startOffset, mark) marks node.key at startOffset
\* and the i-th child at startOffset plus the sum of the key sizes of the
\* children before it; the bytes returned are node.key.size many and a
\* permutation of node.key; each child's own extracted bytes lie at
\* relativeOffset .. relativeOffset + child.key.size, and the parent's
\* uncovered bytes follow in ascending order.
ExtractLayout ==
    \A entry \in NestedEntries :
        \A node \in SubEntries(entry) :
            \A startOffset \in ExtractOffsets :
                ExtractedAsNested(node, startOffset)

\* populate has returned a root with two children, one of which has a child,
\* and the root is about to be extracted.
ExtractLayoutWitness ==
    /\ pc = "extract"
    /\ \E node \in SubEntries(frames[<<Head(keysInSize)>>].entry) :
           /\ Len(node.nested) = 2
           /\ \E i \in 1..2 : node.nested[i].nested # <<>>

(***************************************************************************)
(* Keys on their own: tiles whose colours lie in all four words of         *)
(* usedColors are added (useColor, also of colours already present) and    *)
(* packed (contains, without).                                             *)
(***************************************************************************)

\* Runs <<first, n>> of LookupColorSeq; colours 1-4 lie in word 0, 5-8 in word
\* 1, 9-12 in word 2 and 13-16 in word 3.
KeyRuns ==
    {<<3, 2>>, <<3, 3>>, <<3, 4>>, <<3, 6>>, <<5, 3>>, <<7, 3>>, <<7, 6>>,
     <<11, 3>>, <<11, 4>>, <<11, 6>>, <<14, 3>>, <<1, 16>>}

KeyTiles ==
    {[p \in Pixels |-> LookupColorSeq[r[1] + (p % r[2])]] : r \in KeyRuns}

KeyNext ==
    \/ \E delta \in KeyTiles : Add(delta)
    \/ Generate

KeySpec == Init /\ [][KeyNext]_vars

\* The keys the program holds.
RECURSIVE KeysOfEntry(_)
KeysOfEntry(entry) ==
    {entry.key} \cup UNION {KeysOfEntry(entry.nested[i]) : i \in 1..Len(entry.nested)}

AllKeys ==
    {EmptyKey} \cup DOMAIN keyUses \cup remainder \cup DOMAIN lookup.starts
        \cup {frames[id].remainingKey : id \in DOMAIN frames}
        \cup UNION {KeysOfEntry(entry) : entry \in NestedEntries}

\* C19. Bitset laws: for every key built by useColor and without, size is the
\* number of set bits and useColor of a colour that is present changes
\* nothing; for all keys A, B: A.contains(B) holds iff B is a subset of A, and
\* A.without(B) is the set difference, of size A.size - |A intersect B| (keys
\* are values: A and B are what they were).
BitsetLaws ==
    /\ \A A \in AllKeys :
           /\ A.size = Cardinality(ColorSet(A))
           /\ DOMAIN A.usedColors = 0..(KeyWords - 1)
           /\ \A w \in DOMAIN A.usedColors : A.usedColors[w] \subseteq 0..(WordBits - 1)
           /\ \A c \in ColorSet(A) : useColor(A, c) = A
    /\ \A A, B \in AllKeys :
           /\ contains(A, B) <=> (ColorSet(B) \subseteq ColorSet(A))
           /\ ColorSet(without(A, B)) = ColorSet(A) \ ColorSet(B)
           /\ without(A, B).size
                  = A.size - Cardinality(ColorSet(A) \cap ColorSet(B))
           /\ without(A, B) = KeyOfSet(ColorSet(A) \ ColorSet(B))

\* populate holds a remaining key made by without, and two registered keys
\* overlap without one containing the other, with colours in the last word.
BitsetLawsWitness ==
    /\ \E id \in DOMAIN frames :
           /\ frames[id].remainingKey # frames[id].entry.key
           /\ frames[id].remainingKey.size > 0
    /\ \E A, B \in DOMAIN keyUses :
           /\ ColorSet(A) \cap ColorSet(B) # {}
           /\ ColorSet(A) \ ColorSet(B) # {}
           /\ ColorSet(B) \ ColorSet(A) # {}
           /\ A.usedColors[3] # {} /\ A.usedColors[2] # {}

(***************************************************************************)
(* The order of the size classes in Generate                               *)
(***************************************************************************)

\* Generate is between its first and its last line.
Generating == pc \in {"scavenge", "roots", "populate", "extract"}

\* The keys of sizes above the size class at hand have their starts.
LargerPlaced ==
    Generating =>
        \A key \in DOMAIN keyUses :
            key.size > size => key \in DOMAIN lookup.starts

\* The keys taken as roots are of the size class at hand.
RootsOfSize ==
    Generating =>
        \A i \in 1..Len(keysInSize) : keysInSize[i].size = size

\* Within one call of Generate the size class does not grow, and the bytes
\* appended by a root are those of a key of the size class at hand.
SizeSteps ==
    /\ (Generating /\ generates' = generates) => size' <= size
    /\ (pc = "extract" /\ pc' = "roots") =>
           /\ frames[<<Head(keysInSize)>>].entry.key = Head(keysInSize)
           /\ Head(keysInSize).size = size
           /\ Len(lookup'.buffer) > Len(lookup.buffer)

\* C20. Descending size classes: when a key of size s is examined by the
\* prefix scavenging or taken as a packing root, and when its bytes are
\* appended, every registered key of a size above s has a starts entry; the
\* roots are appended in non-increasing order of key size.
DescendingSizes == [](LargerPlaced /\ RootsOfSize) /\ [][SizeSteps]_vars

\* A root is about to be appended to a buffer that holds a larger root.
DescendingSizesWitness ==
    /\ pc = "extract"
    /\ lookup.buffer # <<>>
    /\ \E key \in DOMAIN keyUses :
           /\ key.size > size
           /\ ~contains(key, Head(keysInSize))

(***************************************************************************)
(* The writes of starts during one call of Generate                        *)
(***************************************************************************)

\* The keys that may yet be scavenged, taken as a root or nested: the
\* remainder (the cache's pool), the roots waiting in keysInSize and the keys
\* of the entries under construction.
CandidateKeys ==
    remainder \cup Range(keysInSize)
        \cup UNION {Range(TreeKeys(entry)) : entry \in NestedEntries}

\* A key that has its starts entry is no candidate any more.
PlacedNoCandidate ==
    Generating => CandidateKeys \cap DOMAIN lookup.starts = {}

\* The calls of the marker made by the extraction of the root at hand.
RootMarks ==
    extractBuffer(frames[<<Head(keysInSize)>>].entry, Len(lookup.buffer)).marks

\* Within one call of Generate a starts entry stays what it is, and the
\* extraction of a root marks each key once and marks no key that has an entry.
WrittenOnce ==
    generates' = generates =>
        /\ \A K \in DOMAIN lookup.starts :
               /\ K \in DOMAIN lookup'.starts
               /\ lookup'.starts[K] = lookup.starts[K]
        /\ (pc = "extract" /\ pc' = "roots") =>
               /\ \A i, j \in 1..Len(RootMarks) :
                      RootMarks[i].key = RootMarks[j].key => i = j
               /\ \A i \in 1..Len(RootMarks) :
                      RootMarks[i].key \notin DOMAIN lookup.starts
               /\ DOMAIN lookup'.starts = DOMAIN lookup.starts
                      \cup {RootMarks[i].key : i \in 1..Len(RootMarks)}

\* C21. Each registered key receives its starts entry exactly once during a
\* run of Generate: once starts[K] is written, by scavenging, as a root or as
\* a nested child, K is no candidate for scavenging, rooting or nesting and
\* starts[K] is not overwritten; at the end every registered key has one.
StartsOnce ==
    /\ [](PlacedNoCandidate /\ (pc = "done" => RegisteredKeys \subseteq DOMAIN lookup.starts))
    /\ [][WrittenOnce]_vars

\* A root with a nested child is about to be extracted while the keys placed
\* by a larger root have their entries.
StartsOnceWitness ==
    /\ pc = "extract"
    /\ frames[<<Head(keysInSize)>>].entry.nested # <<>>
    /\ \E K \in DOMAIN lookup.starts : K.size > size

(***************************************************************************)
(* The end of the loop over the sizes                                      *)
(***************************************************************************)

\* The loop of line 218 is over and the loop of line 272 not yet run.
SizesDone == pc = "scavenge" /\ ~(size > 2)

RemainderEmptied == (SizesDone \/ pc = "done") => remainder = {}

\* The loop of lines 272-275 leaves the lookup as it is, and within one call
\* of Generate the buffer changes only by the bytes of an extracted root.
AppendedByRoots ==
    /\ (SizesDone /\ pc' = "done") => lookup' = lookup
    /\ (generates' = generates /\ lookup'.buffer # lookup.buffer) =>
           /\ pc = "extract" /\ pc' = "roots"
           /\ lookup'.buffer = lookup.buffer \o
                  extractBuffer(frames[<<Head(keysInSize)>>].entry,
                                Len(lookup.buffer)).bytes

\* C22. When the loop over the sizes PixelPerTile down to 3 is over, the
\* remainder is empty for every set of keys built through Add, so the final
\* loop appends nothing and every byte of the buffer was appended by the
\* extraction of a packing root.
NaiveLoopIdle == []RemainderEmptied /\ [][AppendedByRoots]_vars

\* Generate has returned a buffer for several keys, one of them of the last
\* size class.
NaiveLoopIdleWitness ==
    /\ pc = "done"
    /\ lookup.buffer # <<>>
    /\ Cardinality(RegisteredKeys) >= 2
    /\ \E K \in RegisteredKeys : K.size = 3


(***************************************************************************)
(* The results channel of one turn of populateRemaining's loop             *)
(***************************************************************************)

\* The populate call whose populateRemaining started the goroutine.
Collector(id) == SubSeq(id, 1, Len(id) - 1)

\* The goroutines started for the channel of id that have not ended, in the
\* frames fr.
Unanswered(fr, id) ==
    {c \in DOMAIN fr : Len(c) = Len(id) + 1 /\ SubSeq(c, 1, Len(id)) = id}

\* A goroutine lives only while the channel it was started for is open, and
\* the collector waits for as many results as goroutines have yet to send.
ChannelOpen ==
    \A id \in DOMAIN frames :
        /\ ~IsDriver(id) =>
               /\ Collector(id) \in DOMAIN frames
               /\ frames[Collector(id)].pc = "collect"
        /\ frames[id].pc = "collect" =>
               frames[id].resultsPending = Cardinality(Unanswered(frames, id))

\* One step of the channel's life: the channel is made with nothing sent and a
\* count equal to the goroutines started; a goroutine ends only by its one
\* send, which takes one off the collector's count; a goroutine at its send
\* does nothing else; the channel is closed with every goroutine ended.
ChannelSteps ==
    \A id \in DOMAIN frames :
        /\ (frames[id].pc = "launch" /\ id \in DOMAIN frames'
               /\ frames'[id].pc = "collect") =>
               /\ Unanswered(frames, id) = {}
               /\ frames'[id].resultsPending = Cardinality(Unanswered(frames', id))
               /\ \A c \in Unanswered(frames', id) : frames'[c].pc = "lock1"
        /\ (~IsDriver(id) /\ id \notin DOMAIN frames') =>
               /\ frames[id].pc = "send"
               /\ Collector(id) \in DOMAIN frames'
               /\ frames'[Collector(id)].pc = "collect"
               /\ frames'[Collector(id)].resultsPending
                      = frames[Collector(id)].resultsPending - 1
               /\ DOMAIN frames' = DOMAIN frames \ {id}
        /\ (frames[id].pc = "send" /\ id \in DOMAIN frames') =>
               frames'[id] = frames[id]
        /\ (frames[id].pc = "collect" /\ id \in DOMAIN frames'
               /\ frames'[id].pc # "collect") =>
               /\ frames[id].resultsPending = 0
               /\ Unanswered(frames, id) = {}
               /\ Unanswered(frames', id) = {}

\* C23. In every populateRemaining call the found callback of each launched
\* query is invoked exactly once: the sends on a results channel are as many
\* as the queries launched for it, and no goroutine sends on a results channel
\* after the collector has closed it.
FoundOnce == []ChannelOpen /\ [][ChannelSteps]_vars

\* A goroutine's own populateRemaining has closed a channel on which it
\* received a result, while its collector waits for it and another goroutine.
FoundOnceWitness ==
    \E id \in DOMAIN frames :
        /\ ~IsDriver(id)
        /\ frames[id].pc = "launch"
        /\ frames[id].maxNested # <<>>
        /\ frames[Collector(id)].resultsPending >= 2


(***************************************************************************)
(* The keys of the returned lookup                                         *)
(***************************************************************************)

\* Lookup's "inLookup" for the tile of the call made.
InLookup == KeyOfTile(call.tile) \in DOMAIN lookup.starts

\* The call took the branch of line 85: the palette is the key's window of
\* the buffer at the index returned.
CallHit ==
    LET key == KeyOfTile(call.tile)
    IN  /\ InLookup
        /\ call.index = lookup.starts[key]
        /\ call.pal = Window(lookup.buffer, call.index, key.size)

\* The call took the branch of line 87.
CallMiss ==
    /\ ~InLookup
    /\ call.index = 0
    /\ call.pal = buffer(KeyOfTile(call.tile))

\* C24. After Generate the domain of starts is exactly the set of distinct
\* registered keys: no key that was not registered through Add, and no key of
\* two colours or fewer, ever gets a starts entry, so Lookup finds the key in
\* starts precisely for the tiles whose key was registered.
StartsAreRegistered ==
    /\ (Generating \/ pc = "done") =>
           /\ DOMAIN lookup.starts \subseteq RegisteredKeys
           /\ \A K \in DOMAIN lookup.starts : K.size > 2
    /\ pc = "done" => DOMAIN lookup.starts = RegisteredKeys
    /\ call # NoCall =>
           IF KeyOfTile(call.tile) \in RegisteredKeys THEN CallHit ELSE CallMiss

\* Lookup was called with a tile of three colours or more whose key was not
\* registered although its colours lie in a registered key, next to a
\* registered key of the same size that has its entry.
StartsAreRegisteredWitness ==
    /\ call # NoCall
    /\ KeyOfTile(call.tile).size > 2
    /\ KeyOfTile(call.tile) \notin RegisteredKeys
    /\ \E K \in RegisteredKeys :
           /\ K # KeyOfTile(call.tile)
           /\ contains(K, KeyOfTile(call.tile))
    /\ \E K \in DOMAIN lookup.starts : K.size = KeyOfTile(call.tile).size

====
